---- MODULE Spec2Model ----
(***************************************************************************)
(* 01LIBRARY: the e-book catalog of src/01library.py (class EbookLibrary). *)
(* The state is the in-memory database (lists, current_list), the          *)
(* persisted document database/library.json, the link directories under    *)
(* books/ and the source files the links point at.                         *)
(***************************************************************************)
EXTENDS Integers, Sequences, FiniteSets, TLC

VARIABLES
    running,       \* the process is inside EbookLibrary.run()
    lists,         \* self.database["lists"]: ordered dict name -> ordered dict key -> entry
    current_list,  \* self.current_list
    db_file,       \* database/library.json
    books_dir,     \* books/<list>: whether the directory exists, and its links
    files,         \* the regular files that exist outside books/ (absolute paths)
    os_name,       \* os.name: "posix" (symlinks) or "nt" (copies)
    outcome,       \* what the last step was: operation, inputs, what it printed
    disturbed,     \* an I/O call has failed, or something outside touched the files
    now,           \* the clock datetime.now() reads: the number of books added so far
    scen,          \* progress through the scripted session of spec section 8
    byte_count,    \* the argument of a call of format_size
    label,         \* what that call returned
    unsaved        \* the link of the add_book whose save failed: its list and name

vars == <<running, lists, current_list, db_file, books_dir, files, os_name, outcome, disturbed, now, scen,
          byte_count, label, unsaved>>

-----------------------------------------------------------------------------
(* Bounds of the model *)

MaxBooks == 3      \* add_book is explored for the first MaxBooks books it links
MaxDigits == 6     \* format_size is given byte counts of up to MaxDigits base-1024 digits

-----------------------------------------------------------------------------
(* Inputs *)

ListNames == {"default", "scifi"}

\* what the user may type at "Enter new list name": a name, nothing, or blanks
NameInputs == ListNames \cup {"", " "}

base_dir == "/lib"

\* A path is its directory, and its name split as pathlib does: stem + suffix.
\* The stem is kept as a base word and the "_<n>" groups that end it, so that
\* "dune_1" is what add_book builds from the stem "dune" and counter 1.
Dune == [dir |-> "/tmp", base |-> "dune", sfx |-> <<>>, ext |-> ".epub"]
DuneRel == [dir |-> ".", base |-> "dune", sfx |-> <<>>, ext |-> ".epub"]
Gone == [dir |-> "/tmp", base |-> "gone", sfx |-> <<>>, ext |-> ".pdf"]
TmpDir == [dir |-> "/", base |-> "tmp", sfx |-> <<>>, ext |-> ""]
NoPath == [dir |-> "", base |-> "", sfx |-> <<>>, ext |-> ""]

PathInputs == {NoPath, Dune, DuneRel, Gone, TmpDir}

\* what int(input(...)) is given: text that is no number, or a number
ChoiceInputs(n) == {[isnum |-> FALSE, val |-> 0]} \cup {[isnum |-> TRUE, val |-> v] : v \in 0..(n + 1)}

-----------------------------------------------------------------------------
(* Python dict: insertion-ordered mapping *)

EmptyDict == [keys |-> <<>>, val |-> [k \in {} |-> {}]]

Keys(d) == {d.keys[i] : i \in 1..Len(d.keys)}

DictSet(d, k, v) ==
    [keys |-> IF k \in Keys(d) THEN d.keys ELSE Append(d.keys, k),
     val |-> [x \in Keys(d) \cup {k} |-> IF x = k THEN v ELSE d.val[x]]]

\* a del that leaves the key in place
DictKept(d, k) == d

DictDel(d, k) ==
    [keys |-> SelectSeq(d.keys, LAMBDA x : x # k),
     val |-> [x \in Keys(d) \ {k} |-> d.val[x]]]

\* d.get(k, default)
DictGet(d, k, default) == IF k \in Keys(d) THEN d.val[k] ELSE default

-----------------------------------------------------------------------------
(* format_size: the label is <whole>.<frac> <unit>, or "0 B" (frac = -1).     *)
(* A byte count is written in base 1024, most significant digit first:       *)
(* <<1, 512>> is 1536. Dividing by 1024.0 moves the point one digit to the   *)
(* left, exactly, for every count a float holds exactly (below 2^53).        *)

size_names == <<"B", "KB", "MB", "GB", "TB">>

\* the while loop: size_bytes >= 1024 (a digit is left before the point beside
\* the first) and i < len(size_names) - 1
RECURSIVE size_unit(_, _)
size_unit(size_bytes, i) ==
    IF Len(size_bytes) - i > 1 /\ i < Len(size_names) - 1
    THEN size_unit(size_bytes, i + 1)
    ELSE i

\* the integer the digits ws write
RECURSIVE Whole(_)
Whole(ws) ==
    IF Len(ws) = 0 THEN 0 ELSE 1024 * Whole(SubSeq(ws, 1, Len(ws) - 1)) + ws[Len(ws)]

\* ten times the fraction 0.fs: the digit carried over the point, and the
\* fraction that is left
RECURSIVE Times10(_)
Times10(fs) ==
    IF Len(fs) = 0
    THEN [carry |-> 0, digits |-> <<>>]
    ELSE LET rest == Times10(Tail(fs))
             v == 10 * Head(fs) + rest.carry
         IN  [carry |-> v \div 1024, digits |-> <<v % 1024>> \o rest.digits]

\* the fraction 0.fs against one half: "above", "half" or "below"
AgainstHalf(fs) ==
    IF Len(fs) = 0 \/ fs[1] < 512 THEN "below"
    ELSE IF fs[1] > 512 \/ \E k \in 2..Len(fs) : fs[k] # 0 THEN "above"
    ELSE "half"

\* a formatting that cuts the value off after the first decimal
one_decimal_cut(ws, fs) == 10 * Whole(ws) + Times10(fs).carry

\* a formatting that always takes the next tenth up
one_decimal_up(ws, fs) == 10 * Whole(ws) + Times10(fs).carry + 1

\* f"{x:.1f}" of x = ws.fs, in tenths: the nearest tenth, a tie going to the
\* even digit
one_decimal(ws, fs) ==
    LET t == 10 * Whole(ws) + Times10(fs).carry
        left == AgainstHalf(Times10(fs).digits)
    IN  IF left = "above" \/ (left = "half" /\ t % 2 = 1) THEN t + 1 ELSE t

format_size(size_bytes) ==
    IF size_bytes = <<0>>
    THEN [whole |-> 0, frac |-> -1, unit |-> "B"]
    ELSE LET i == size_unit(size_bytes, 0)
             n == Len(size_bytes)
             t == one_decimal(SubSeq(size_bytes, 1, n - i), SubSeq(size_bytes, n - i + 1, n))
         IN  [whole |-> t \div 10, frac |-> t % 10, unit |-> size_names[i + 1]]

-----------------------------------------------------------------------------
(* The file system *)

\* the directory the program is started from
cwd == "/tmp"

\* Path.absolute(): a relative path is taken from the working directory
absolute(p) == IF p.dir = "." THEN [p EXCEPT !.dir = cwd] ELSE p

Directories == {TmpDir}

\* the regular files present when the catalog is first used; "./dune.epub" and
\* "/tmp/dune.epub" are two spellings of the one file
SourceFiles == {Dune}

\* book_path.exists(), book_path.is_file(), book_path.stat().st_size
path_exists(p) == absolute(p) \in files \/ absolute(p) \in Directories
is_file(p) == absolute(p) \in files
st_size(p) ==
    IF absolute(p) = Dune THEN <<1, 512>> ELSE <<0>>

\* book_path.name, and f"{original_name}_{counter}{extension}"
file_name(p) == [base |-> p.base, sfx |-> p.sfx, ext |-> p.ext]
numbered_name(p, counter) == [base |-> p.base, sfx |-> Append(p.sfx, counter), ext |-> p.ext]

NoDir == [exists |-> FALSE, links |-> {}]
EmptyDir == [exists |-> TRUE, links |-> {}]

LinkNames(dir) == {l.name : l \in dir.links}

\* a mkdir that leaves an empty directory, whatever was there
mkdir_emptied(dir) == EmptyDir

\* Path.mkdir(exist_ok=True)
mkdir(dir) == IF dir.exists THEN dir ELSE EmptyDir

\* symlink_path.exists(): follows a symbolic link, so a link whose target is
\* gone does not "exist"; a copy (nt) exists while it is in the directory
link_exists(dir, name, fs, os) ==
    \E l \in dir.links : l.name = name /\ (os = "nt" \/ l.target \in fs)

\* lines 151-158: the first of name, stem_1, stem_2, ... that does not exist
RECURSIVE free_name(_, _, _, _, _, _)
free_name(dir, p, candidate, counter, fs, os) ==
    IF link_exists(dir, candidate, fs, os)
    THEN free_name(dir, p, numbered_name(p, counter), counter + 1, fs, os)
    ELSE candidate

\* a search for the free name that starts its counter at 2
symlink_name_from_two(dir, p, fs, os) == free_name(dir, p, file_name(p), 2, fs, os)

symlink_name(dir, p, fs, os) == free_name(dir, p, file_name(p), 1, fs, os)

\* a link that is not made, or is taken back
symlink_skipped(dir, name, p) == dir

\* os.symlink(book_path.absolute(), symlink_path) / shutil.copy2
symlink(dir, name, p) == [dir EXCEPT !.links = @ \cup {[name |-> name, target |-> absolute(p)]}]

\* a delete_book that forgets the link
unlink_skipped(dir, name, fs, os) == dir

\* lines 207-208: if symlink_path.exists(): symlink_path.unlink()
unlink(dir, name, fs, os) ==
    IF link_exists(dir, name, fs, os)
    THEN [dir EXCEPT !.links = {l \in @ : l.name # name}]
    ELSE dir

\* lines 266-267: if list_dir.exists(): shutil.rmtree(list_dir)
rmtree(dir) == NoDir

\* 1 <= choice <= len(names)
valid_choice(c, n) == 1 <= c.val /\ c.val <= n

\* an index that counts from the end of the menu: names[-choice]
selected_from_end(names, c) == names[Len(names) + 1 - c.val]

\* names[choice - 1]
selected(names, c) == names[c.val]

-----------------------------------------------------------------------------
(* The persisted document: json.dump / json.load *)

\* A JSON object is written and read as the sequence of its <<key, value>>
\* members, in the order of the dict.
dump_entry(e) ==
    << <<"name", e.name>>, <<"size", e.size>>, <<"location", e.location>>,
       <<"added_date", e.added_date>> >>

dump_entries(d) == [i \in 1..Len(d.keys) |-> <<d.keys[i], dump_entry(d.val[d.keys[i]])>>]

\* a dump that writes the lists last first
dump_lists_reversed(d) ==
    [i \in 1..Len(d.keys) |->
        <<d.keys[Len(d.keys) + 1 - i], dump_entries(d.val[d.keys[Len(d.keys) + 1 - i]])>>]

dump_lists(d) == [i \in 1..Len(d.keys) |-> <<d.keys[i], dump_entries(d.val[d.keys[i]])>>]

json_dump(ls, cur) == << <<"lists", dump_lists(ls)>>, <<"current_list", cur>> >>

\* json.load of an object: members are inserted in order, a repeated key keeps
\* its first place and takes the last value
RECURSIVE load_object(_)
load_object(pairs) ==
    IF Len(pairs) = 0
    THEN EmptyDict
    ELSE LET n == Len(pairs)
         IN  DictSet(load_object(SubSeq(pairs, 1, n - 1)), pairs[n][1], pairs[n][2])

load_entry(pairs) ==
    LET o == load_object(pairs)
    IN  [name |-> o.val["name"], size |-> o.val["size"], location |-> o.val["location"],
         added_date |-> o.val["added_date"]]

load_entries(pairs) ==
    LET o == load_object(pairs)
    IN  [keys |-> o.keys, val |-> [k \in Keys(o) |-> load_entry(o.val[k])]]

load_lists(pairs) ==
    LET o == load_object(pairs)
    IN  [keys |-> o.keys, val |-> [k \in Keys(o) |-> load_entries(o.val[k])]]

Absent == [kind |-> "absent", text |-> <<>>]            \* no library.json
Unparseable == [kind |-> "unparseable", text |-> <<>>]  \* json.load raises JSONDecodeError
NonObject == [kind |-> "nonobject", text |-> <<>>]      \* valid JSON that is no object, as []
Document(text) == [kind |-> "json", text |-> text]

\* a default database created without its "default" list
DefaultListsEmpty == EmptyDict

\* lines 70, 72: {"lists": {"default": {}}, ...}
DefaultLists == DictSet(EmptyDict, "default", EmptyDict)

\* load_database: the database and current_list it leaves, or the exception
\* that ends __init__ (AttributeError at line 74: a list has no .get)
load_database(doc) ==
    IF doc.kind = "json"
    THEN LET top == load_object(doc.text)
         IN  [raised |-> FALSE,
              lists |-> load_lists(top.val["lists"]),
              current_list |-> DictGet(top, "current_list", "default")]
    ELSE IF doc.kind = "nonobject"
    THEN [raised |-> TRUE, lists |-> EmptyDict, current_list |-> "default"]
    ELSE [raised |-> FALSE, lists |-> DefaultLists, current_list |-> "default"]

-----------------------------------------------------------------------------
(* The handlers, as functions of the current state, the input and what the   *)
(* I/O calls do. Each yields the state it leaves and what it reported.       *)

Here ==
    [running |-> running, lists |-> lists, current_list |-> current_list,
     db_file |-> db_file, books_dir |-> books_dir, status |-> "ok"]

\* a handler that prints a message and returns
Reject(msg) == [Here EXCEPT !.status = msg]

\* what os.symlink()/shutil.copy2() and open()/json.dump() do:
\* link |-> "ok", "refused" (the call raises and nothing is created) or
\* "partial" (copy2 raises after it has created the destination file: the disk
\* fills up, or copystat fails; os.symlink makes the link whole or not at all);
\* save |-> "ok", "denied" (open raises, file untouched) or "partial" (the file
\* was truncated by open and the write did not finish)
IoOk == [link |-> "ok", save |-> "ok"]
IoFaults == {[link |-> "refused", save |-> "ok"], [link |-> "partial", save |-> "ok"],
             [link |-> "ok", save |-> "denied"], [link |-> "ok", save |-> "partial"]}
SaveFaults == {io \in IoFaults : io.link = "ok"}

\* a save that writes nothing
save_skipped(s, how) == s

\* save_database (lines 76-80)
save_database(s, how) ==
    IF how = "ok"
    THEN [s EXCEPT !.db_file = Document(json_dump(s.lists, s.current_list))]
    ELSE IF how = "denied"
    THEN [s EXCEPT !.status = "StorageError"]
    ELSE [s EXCEPT !.status = "StorageError", !.db_file = Unparseable]

\* an exception no handler catches reaches main(): sys.exit(1)
Uncaught(s) ==
    IF s.status = "StorageError"
    THEN [s EXCEPT !.running = FALSE, !.lists = EmptyDict, !.current_list = "default"]
    ELSE s

\* an entry that records the path as typed, not its absolute form
new_entry_as_typed(name, p, t) ==
    [name |-> name, size |-> format_size(st_size(p)), location |-> p, added_date |-> t]

new_entry(name, p, t) ==
    [name |-> name, size |-> format_size(st_size(p)), location |-> absolute(p),
     added_date |-> t]

\* add_book (lines 120-183)
add_book(p, t, io) ==
    IF p = NoPath THEN Reject("no_path")
    ELSE IF ~path_exists(p) THEN Reject("not_exists")
    ELSE IF ~is_file(p) THEN Reject("not_file")
    ELSE
      LET list_dir == mkdir(books_dir[current_list])
          name == symlink_name(list_dir, p, files, os_name)
          made == [Here EXCEPT !.books_dir = [books_dir EXCEPT ![current_list] = list_dir]]
          linked == symlink(list_dir, name, p)
      IN  IF io.link = "refused" \/ name \in LinkNames(list_dir)
             \/ (io.link = "partial" /\ os_name # "nt")
          THEN \* os.symlink raised (FileExistsError over a dangling link)
               [made EXCEPT !.status = "LinkCreationFailed"]
          ELSE IF io.link = "partial"
          THEN \* copy2 raised, and left what it had written
               [made EXCEPT !.status = "LinkCreationFailed",
                            !.books_dir = [books_dir EXCEPT ![current_list] = linked]]
          ELSE
            LET lists1 == IF current_list \notin Keys(lists)
                          THEN DictSet(lists, current_list, EmptyDict)
                          ELSE lists
                lists2 == DictSet(lists1, current_list,
                                  DictSet(lists1.val[current_list], name, new_entry(name, p, t)))
            IN  \* a failing save is caught by "except Exception": the handler returns
                save_database([Here EXCEPT !.books_dir = [books_dir EXCEPT ![current_list] = linked],
                                           !.lists = lists2],
                              io.save)

\* delete_book (lines 185-218)
delete_book(c, io) ==
    LET books == DictGet(lists, current_list, EmptyDict)
    IN  IF Len(books.keys) = 0 THEN Reject("no_books")
        ELSE IF ~c.isnum THEN Reject("not_a_number")
        ELSE IF ~valid_choice(c, Len(books.keys)) THEN Reject("invalid_selection")
        ELSE
          LET book_name == selected(books.keys, c)
              unlinked == unlink(books_dir[current_list], book_name, files, os_name)
          IN  Uncaught(save_database(
                  [Here EXCEPT !.books_dir = [books_dir EXCEPT ![current_list] = unlinked],
                               !.lists = DictSet(lists, current_list, DictDel(books, book_name))],
                  io.save))

\* a name taken as typed
strip_none(s) == s

\* str.strip() of the inputs the model draws
strip(s) == IF s = " " THEN "" ELSE s

\* add_list (lines 220-240)
add_list(raw, io) ==
    LET list_name == strip(raw)
    IN  IF list_name = "" THEN Reject("empty_name")
        ELSE IF list_name \in Keys(lists) THEN Reject("already_exists")
        ELSE Uncaught(save_database(
                 [Here EXCEPT !.books_dir = [books_dir EXCEPT ![list_name] = mkdir(@)],
                              !.lists = DictSet(lists, list_name, EmptyDict)],
                 io.save))

\* a check of line 246 that lets the last list go
last_list_unprotected(names) == Len(names) < 1

\* line 246: "Cannot delete the last remaining list!"
last_list_protected(names) == Len(names) <= 1

\* a delete_list without the check of line 260
active_list_unprotected(list_name) == FALSE

\* line 260: "Cannot delete the current active list!"
active_list_protected(list_name) == list_name = current_list

\* delete_list (lines 242-277)
delete_list(c, io) ==
    IF last_list_protected(lists.keys) THEN Reject("last_list")
    ELSE IF ~c.isnum THEN Reject("not_a_number")
    ELSE IF ~valid_choice(c, Len(lists.keys)) THEN Reject("invalid_selection")
    ELSE
      LET list_name == selected(lists.keys, c)
      IN  IF active_list_protected(list_name) THEN Reject("active_list")
          ELSE Uncaught(save_database(
                   [Here EXCEPT !.books_dir = [books_dir EXCEPT ![list_name] = rmtree(@)],
                                !.lists = DictDel(lists, list_name)],
                   io.save))

\* switch_lists (lines 279-302)
switch_lists(c, io) ==
    IF Len(lists.keys) = 1 THEN Reject("only_one_list")
    ELSE IF ~c.isnum THEN Reject("not_a_number")
    ELSE IF ~valid_choice(c, Len(lists.keys)) THEN Reject("invalid_selection")
    ELSE Uncaught(save_database([Here EXCEPT !.current_list = selected(lists.keys, c)], io.save))

\* what open_book hands to the system's opener: the original file, the link
\* books/<list>/<name>, or nothing
NoTarget == [kind |-> "none", list |-> "", name |-> file_name(NoPath), path |-> NoPath]
OriginalTarget(p) == [kind |-> "original", list |-> "", name |-> file_name(NoPath), path |-> p]
LinkTarget(n, k) == [kind |-> "link", list |-> n, name |-> k, path |-> NoPath]

\* a fallback that takes the link whenever the directory lists it
link_listed(dir, name, fs, os) == name \in LinkNames(dir)

\* line 365: elif symlink_path.exists()
link_opens(dir, name, fs, os) == link_exists(dir, name, fs, os)

\* open_book (lines 337-395): what it reports and the file it opens; it
\* assigns nothing
open_book(c) ==
    LET books == DictGet(lists, current_list, EmptyDict)
    IN  IF Len(books.keys) = 0 THEN [status |-> "no_books", file_to_open |-> NoTarget]
        ELSE IF ~c.isnum THEN [status |-> "not_a_number", file_to_open |-> NoTarget]
        ELSE IF ~valid_choice(c, Len(books.keys))
        THEN [status |-> "invalid_selection", file_to_open |-> NoTarget]
        ELSE
          LET book_name == selected(books.keys, c)
              original_path == books.val[book_name].location
          IN  IF path_exists(original_path)
              THEN [status |-> "ok", file_to_open |-> OriginalTarget(original_path)]
              ELSE IF link_opens(books_dir[current_list], book_name, files, os_name)
              THEN [status |-> "ok", file_to_open |-> LinkTarget(current_list, book_name)]
              ELSE [status |-> "book_not_found", file_to_open |-> NoTarget]

-----------------------------------------------------------------------------
(* The scripted session of spec section 8: add list scifi, switch to it, add   *)
(* /tmp/dune.epub, delete list default. scen names the last step of it taken    *)
(* from the fresh catalog; "off" once the session did anything else.            *)

NoChoice == [isnum |-> TRUE, val |-> -1]

Outcome(op, status, choice, name, path) ==
    [op |-> op, status |-> status, choice |-> choice, name |-> name, path |-> path]

Picked(o, n) == o.choice = [isnum |-> TRUE, val |-> n]

ScenNext(s, o) ==
    IF s = "fresh" /\ o.op = "add_list" /\ o.name = "scifi" /\ o.status = "ok" THEN "listed"
    ELSE IF s = "listed" /\ o.op = "switch_lists" /\ Picked(o, 2) /\ o.status = "ok" THEN "switched"
    ELSE IF s = "switched" /\ o.op = "add_book" /\ o.path = Dune /\ o.status = "ok" THEN "added"
    ELSE IF s = "added" /\ o.op = "delete_list" /\ Picked(o, 1) /\ o.status = "ok" THEN "removed_default"
    ELSE "off"

-----------------------------------------------------------------------------
(* Actions *)

\* the handler printed a message and returned, with the state as it was
Rejected(r) == r.status \notin {"ok", "LinkCreationFailed", "StorageError", "AttributeError"}

\* The step leaves the state r and reports o. A call that is rejected changes
\* nothing: it is a stuttering step, and what the handler does with such an
\* input is read off the handler itself.
Leaves(r, o) ==
    /\ ~Rejected(r)
    /\ running' = r.running
    /\ lists' = r.lists
    /\ current_list' = r.current_list
    /\ db_file' = r.db_file
    /\ books_dir' = r.books_dir
    /\ outcome' = o
    /\ scen' = ScenNext(scen, o)
    /\ now' = IF o.op = "add_book" /\ o.status \in {"ok", "StorageError"} THEN now + 1 ELSE now
    /\ unsaved' = IF o.op = "add_book" /\ o.status = "StorageError"
                   THEN [list |-> current_list,
                         name |-> symlink_name(mkdir(books_dir[current_list]), o.path, files, os_name)]
                   ELSE unsaved
    /\ UNCHANGED <<files, os_name, byte_count, label>>

\* an I/O call of the step failed
Failed(r) == r.status \in {"LinkCreationFailed", "StorageError"}

\* A behaviour holds at most one disturbance: one I/O call that fails, or one
\* change made to the files from outside the program.
Unfailing == UNCHANGED disturbed
Failing == ~disturbed /\ disturbed' = TRUE

RoomForBook == now < MaxBooks

AddBook ==
    /\ running
    /\ \E p \in PathInputs :
         /\ is_file(p) => RoomForBook
         /\ Leaves(add_book(p, now, IoOk), Outcome("add_book", add_book(p, now, IoOk).status, NoChoice, "", p))
    /\ Unfailing

AddBookFails ==
    /\ running
    /\ Failing
    /\ \E p \in PathInputs, io \in IoFaults :
         LET r == add_book(p, now, io)
         IN  /\ RoomForBook
             /\ Failed(r)
             /\ Leaves(r, Outcome("add_book", r.status, NoChoice, "", p))

DeleteBook ==
    /\ running
    /\ \E c \in ChoiceInputs(Len(DictGet(lists, current_list, EmptyDict).keys)) :
         Leaves(delete_book(c, IoOk), Outcome("delete_book", delete_book(c, IoOk).status, c, "", NoPath))
    /\ Unfailing

DeleteBookFails ==
    /\ running
    /\ Failing
    /\ \E c \in ChoiceInputs(Len(DictGet(lists, current_list, EmptyDict).keys)), io \in SaveFaults :
         LET r == delete_book(c, io)
         IN  Failed(r) /\ Leaves(r, Outcome("delete_book", r.status, c, "", NoPath))

AddList ==
    /\ running
    /\ \E raw \in NameInputs :
         /\ Leaves(add_list(raw, IoOk), Outcome("add_list", add_list(raw, IoOk).status, NoChoice, raw, NoPath))
    /\ Unfailing

AddListFails ==
    /\ running
    /\ Failing
    /\ \E raw \in NameInputs, io \in SaveFaults :
         LET r == add_list(raw, io)
         IN  Failed(r) /\ Leaves(r, Outcome("add_list", r.status, NoChoice, raw, NoPath))

DeleteList ==
    /\ running
    /\ \E c \in ChoiceInputs(Len(lists.keys)) :
         Leaves(delete_list(c, IoOk), Outcome("delete_list", delete_list(c, IoOk).status, c, "", NoPath))
    /\ Unfailing

DeleteListFails ==
    /\ running
    /\ Failing
    /\ \E c \in ChoiceInputs(Len(lists.keys)), io \in SaveFaults :
         LET r == delete_list(c, io)
         IN  Failed(r) /\ Leaves(r, Outcome("delete_list", r.status, c, "", NoPath))

SwitchLists ==
    /\ running
    /\ \E c \in ChoiceInputs(Len(lists.keys)) :
         Leaves(switch_lists(c, IoOk), Outcome("switch_lists", switch_lists(c, IoOk).status, c, "", NoPath))
    /\ Unfailing

SwitchListsFails ==
    /\ running
    /\ Failing
    /\ \E c \in ChoiceInputs(Len(lists.keys)), io \in SaveFaults :
         LET r == switch_lists(c, io)
         IN  Failed(r) /\ Leaves(r, Outcome("switch_lists", r.status, c, "", NoPath))

OpenBook ==
    /\ running
    /\ \E c \in ChoiceInputs(Len(DictGet(lists, current_list, EmptyDict).keys)) :
         Leaves([Here EXCEPT !.status = open_book(c).status],
                Outcome("open_book", open_book(c).status, c, "", NoPath))
    /\ Unfailing

\* menu choice 8 (lines 420-427): the loop ends, the process and its memory go
Exit ==
    /\ running
    /\ Leaves([Here EXCEPT !.running = FALSE, !.lists = EmptyDict, !.current_list = "default"],
              Outcome("exit", "ok", NoChoice, "", NoPath))
    /\ Unfailing

\* main() -> EbookLibrary() (lines 44-74): setup_directories, load_database
Start ==
    /\ ~running
    /\ LET loaded == load_database(db_file)
           dirs == [books_dir EXCEPT !["default"] = mkdir(@)]
       IN  Leaves([Here EXCEPT !.running = ~loaded.raised,
                               !.lists = loaded.lists,
                               !.current_list = loaded.current_list,
                               !.books_dir = dirs,
                               !.status = IF loaded.raised THEN "AttributeError" ELSE "ok"],
                  Outcome("load", IF loaded.raised THEN "AttributeError" ELSE "ok", NoChoice, "", NoPath))
    /\ Unfailing

\* Outside the program: the user deletes a link by hand
RemoveLink ==
    /\ running
    /\ Failing
    /\ \E n \in ListNames : \E l \in books_dir[n].links :
         books_dir' = [books_dir EXCEPT ![n].links = @ \ {l}]
    /\ outcome' = Outcome("outside", "link_removed", NoChoice, "", NoPath)
    /\ scen' = "off"
    /\ UNCHANGED <<running, lists, current_list, db_file, files, os_name, now, byte_count, label, unsaved>>

\* Outside the program: an original file is moved away or deleted
RemoveSource ==
    /\ running
    /\ Failing
    /\ \E f \in files : files' = files \ {f}
    /\ outcome' = Outcome("outside", "source_removed", NoChoice, "", NoPath)
    /\ scen' = "off"
    /\ UNCHANGED <<running, lists, current_list, db_file, books_dir, os_name, now, byte_count, label, unsaved>>

\* Outside the program: library.json is deleted, or overwritten with something
\* that is not the program's document. The program reads the document only when
\* it starts, so the damage is placed between two runs.
DamageDocument ==
    /\ ~running
    /\ Failing
    /\ \E d \in {Absent, Unparseable, NonObject} : d # db_file /\ db_file' = d
    /\ outcome' = Outcome("outside", "document_damaged", NoChoice, "", NoPath)
    /\ scen' = "off"
    /\ UNCHANGED <<running, lists, current_list, books_dir, files, os_name, now, byte_count, label, unsaved>>

\* The first run in a fresh directory, after __init__: no library.json yet,
\* books/default created by setup_directories
\* no add_book has failed to save
NoLink == [list |-> "", name |-> file_name(NoPath)]

InitLibrary ==
    /\ running = TRUE
    /\ lists = DefaultLists
    /\ current_list = "default"
    /\ db_file = Absent
    /\ books_dir = [n \in ListNames |-> IF n = "default" THEN EmptyDir ELSE NoDir]
    /\ files = SourceFiles
    /\ os_name \in {"posix", "nt"}
    /\ outcome = Outcome("load", "ok", NoChoice, "", NoPath)
    /\ disturbed = FALSE
    /\ now = 0
    /\ scen = "fresh"
    /\ unsaved = NoLink

\* no call of format_size but those of add_book
NoLabel == [whole |-> -1, frac |-> -1, unit |-> ""]

Init ==
    /\ InitLibrary
    /\ byte_count = <<0>>
    /\ label = NoLabel

\* the operations, each running to its end with every I/O call succeeding
NextOps ==
    \/ AddBook
    \/ DeleteBook
    \/ AddList
    \/ DeleteList
    \/ SwitchLists
    \/ OpenBook
    \/ Exit
    \/ Start

Next ==
    \/ NextOps
    \/ AddBookFails
    \/ DeleteBookFails
    \/ AddListFails
    \/ DeleteListFails
    \/ SwitchListsFails
    \/ RemoveLink
    \/ RemoveSource
    \/ DamageDocument

\* the program, with one I/O failure or one outside interference
Spec == Init /\ [][Next]_vars

\* the program alone: no I/O call fails and nothing else touches its files
SpecOps == Init /\ [][NextOps]_vars

\* The byte counts format_size is given: digits that sit on and beside the
\* places where the tenth changes (52/1024 is just above 0.05, 256/1024 is
\* 0.25, 512/1024 is 0.5), no leading zero, and below 2^53, up to where a
\* float holds every integer.
DigitInputs == {0, 1, 52, 256, 512, 1023}

SizeInputs ==
    {ds \in UNION {[1..k -> DigitInputs] : k \in 1..MaxDigits} :
        /\ Len(ds) > 1 => ds[1] # 0
        /\ Len(ds) <= 6
        /\ Len(ds) = 6 => ds[1] < 8}

InitSize ==
    /\ InitLibrary
    /\ byte_count \in SizeInputs
    /\ label = NoLabel

\* EbookLibrary.format_size(size_bytes), size_bytes being byte_count
FormatSize ==
    /\ label = NoLabel
    /\ label' = format_size(byte_count)
    /\ UNCHANGED <<running, lists, current_list, db_file, books_dir, files, os_name, outcome,
                   disturbed, now, scen, byte_count, unsaved>>

NextSize == FormatSize

\* format_size alone, called once with each of the byte counts
SpecSize == InitSize /\ [][NextSize]_vars

-----------------------------------------------------------------------------
(* Properties *)

\* the index: the database of the running process, the document of a stopped one
Index == IF running THEN lists ELSE load_database(db_file).lists

Entries(n) == lists.val[n]

Pick(n) == [isnum |-> TRUE, val |-> n]

\* the place of a list in the menu the handlers print
PlaceOf(name) == CHOOSE i \in 1..Len(lists.keys) : lists.keys[i] = name

\* C1: while every operation runs to its end, each list of the catalog has its
\* directory books/<list>, and the names of the links in it are exactly the
\* keys of the list's entries: no link without entry, no entry without link.
C1_LinksMatchEntries ==
    \A n \in Keys(Index) :
        /\ books_dir[n].exists
        /\ LinkNames(books_dir[n]) = Keys(Index.val[n])

\* C1 witness: a book was deleted from a catalog of two lists that still holds books
C1_Witness ==
    /\ running
    /\ outcome.op = "delete_book" /\ outcome.status = "ok"
    /\ Len(lists.keys) = 2
    /\ \E n \in Keys(lists) : Len(Entries(n).keys) >= 1

\* C2: whenever the process runs, current_list is a key of the lists mapping.
C2_ActiveListExists == running => current_list \in Keys(lists)

\* C2 witness: the process was started again after the list "default" was
\* deleted with "scifi" active
C2_Witness ==
    /\ running
    /\ outcome.op = "load"
    /\ current_list = "scifi"
    /\ lists.keys = <<"scifi">>

\* C3: whenever the process runs, the catalog holds at least one list.
C3_AtLeastOneList == running => Len(lists.keys) >= 1

\* C3 witness: a list was just deleted, and one list is left
C3_Witness ==
    /\ running
    /\ outcome.op = "delete_list" /\ outcome.status = "ok"
    /\ Len(lists.keys) = 1

\* add_book has just linked a book and saved the catalog
BookAdded == running /\ outcome.op = "add_book" /\ outcome.status = "ok"

\* the keys of the entries of the active list that point at the path just added
EntriesOfAddedPath ==
    {k \in Keys(Entries(current_list)) :
        Entries(current_list).val[k].location = absolute(outcome.path)}

\* every entry of the active list is filed under its own display name, so no
\* two entries share one
DisplayNamesDistinct ==
    \A k \in Keys(Entries(current_list)) : Entries(current_list).val[k].name = k

\* C4 (as claimed): after add_book of a regular file, the active list holds
\* exactly one entry whose location is the input path, and no other entry has
\* that entry's display name.
C4_ExactlyOneEntry ==
    BookAdded => Cardinality(EntriesOfAddedPath) = 1 /\ DisplayNamesDistinct

\* C4 (amended): after an add_book that linked the file, the active list holds
\* at least one entry whose location is the (absolute) input path, the one just
\* added among them, and no two entries of the list share a display name.
C4_AddedEntryPresent ==
    BookAdded => EntriesOfAddedPath # {} /\ DisplayNamesDistinct

\* C4 witness: the file was just added by its relative path to a list that
\* already held it, and both entries carry its absolute path
C4_Witness ==
    /\ BookAdded
    /\ outcome.path = DuneRel
    /\ Cardinality(EntriesOfAddedPath) = 2
    /\ \A k \in EntriesOfAddedPath : Entries(current_list).val[k].location = Dune

\* the name the claim describes: the file's own name if no link has it, else
\* stem_k.ext for the least k >= 1 that no link has
LeastFreeName(dir, p) ==
    IF file_name(p) \notin LinkNames(dir)
    THEN file_name(p)
    ELSE LET free(k) == numbered_name(p, k) \notin LinkNames(dir)
             k == CHOOSE i \in 1..(Cardinality(dir.links) + 1) :
                      free(i) /\ \A j \in 1..(i - 1) : ~free(j)
         IN  numbered_name(p, k)

\* C5: a step of add_book that creates a link adds exactly one link to the
\* directory of the active list, named with the file's own name when no link
\* has it and else stem_k.ext for the least k >= 1 no link has, and files the
\* entry under that name.
C5_LeastFreeSuffix ==
    [][ (outcome'.op = "add_book" /\ outcome'.status \in {"ok", "StorageError"}) =>
          LET name == LeastFreeName(books_dir[current_list], outcome'.path)
          IN  /\ LinkNames(books_dir'[current_list]) = LinkNames(books_dir[current_list]) \cup {name}
              /\ name \in Keys(lists'.val[current_list]) ]_vars

\* C5 witness: dune.epub was added three times to one list, which holds
\* dune.epub, dune_1.epub and dune_2.epub
C5_Witness ==
    /\ BookAdded
    /\ LinkNames(books_dir[current_list]) =
          {file_name(Dune), numbered_name(Dune, 1), numbered_name(Dune, 2)}
    /\ Keys(Entries(current_list)) = LinkNames(books_dir[current_list])

\* the handler returned r having changed nothing: lists, active list,
\* directories and document are as they were
NothingChanged(r) == Rejected(r) /\ r = Reject(r.status)

\* the choice names a list of the menu
NamesAList(c) == c.isnum /\ 1 <= c.val /\ c.val <= Len(lists.keys)

\* C6: delete_list rejects every choice while the catalog has one list, and
\* rejects the choice of the active list, however many entries the list has
\* and whatever the save would do; the rejection leaves lists, current_list,
\* every directory and the document as they were.
C6_ProtectedListsKept ==
    running =>
      \A c \in ChoiceInputs(Len(lists.keys)), io \in {IoOk} \cup SaveFaults :
        LET r == delete_list(c, io)
            protected ==
              \/ Len(lists.keys) = 1
              \/ NamesAList(c) /\ lists.keys[c.val] = current_list
        IN  protected => r.status \in {"last_list", "active_list"} /\ NothingChanged(r)

\* C6 witness: two lists, the active one holding a book, and delete_list of the
\* active one answers "Cannot delete the current active list!"
C6_Witness ==
    /\ running
    /\ Len(lists.keys) = 2
    /\ Len(Entries(current_list).keys) >= 1
    /\ delete_list(Pick(PlaceOf(current_list)), IoOk).status = "active_list"

\* C7 (as claimed): in the scripted session, after "default" was deleted the
\* deletion of "scifi" fails as the deletion of the active list.
C7_FailsAsActiveList ==
    scen = "removed_default" => delete_list(Pick(PlaceOf("scifi")), IoOk).status = "active_list"

\* C7 (amended): in the scripted session, after the book was added "scifi"
\* holds exactly one entry, named dune.epub, and the deletion of "default"
\* goes through; after it, "scifi" is the only list and its deletion is
\* rejected as the deletion of the last remaining list, changing nothing.
C7_ScriptedSession ==
    /\ scen = "added" =>
         /\ lists.keys = <<"default", "scifi">> /\ current_list = "scifi"
         /\ Entries("scifi").keys = <<file_name(Dune)>>
         /\ Entries("scifi").val[file_name(Dune)].name = file_name(Dune)
         /\ delete_list(Pick(PlaceOf("default")), IoOk).status = "ok"
    /\ scen = "removed_default" =>
         /\ running /\ lists.keys = <<"scifi">> /\ current_list = "scifi"
         /\ Entries("scifi").keys = <<file_name(Dune)>>
         /\ delete_list(Pick(PlaceOf("scifi")), IoOk) = Reject("last_list")

\* C7 witness: the session has deleted "default"
C7_Witness == scen = "removed_default" /\ running /\ outcome.op = "delete_list"

\* C8: switch_lists given a choice that names no list of the menu returns
\* with a message and leaves current_list, lists and the document as they
\* were; given a choice that names a list it leaves current_list equal to
\* that list and the lists as they were, and when it saved, the document
\* holds that list as current_list.
C8_SwitchActive ==
    running =>
      /\ \A c \in ChoiceInputs(Len(lists.keys)) :
           LET r == switch_lists(c, IoOk)
           IN  IF NamesAList(c)
               THEN r.current_list = lists.keys[c.val] /\ r.lists = lists
               ELSE NothingChanged(r)
      /\ (outcome.op = "switch_lists" /\ outcome.status = "ok") =>
           /\ current_list = lists.keys[outcome.choice.val]
           /\ db_file = Document(json_dump(lists, current_list))

\* C8 witness: the second list of the menu was chosen and is now active, and
\* a choice past the end of the menu is answered "Invalid selection!"
C8_Witness ==
    /\ running
    /\ outcome.op = "switch_lists" /\ outcome.status = "ok" /\ outcome.choice = Pick(2)
    /\ current_list = lists.keys[2]
    /\ switch_lists(Pick(3), IoOk).status = "invalid_selection"

\* C9: the catalog of the running process, saved and loaded again, is the same
\* catalog: same list names in the same order, same entry keys in the same
\* order, same entry fields, same current_list; and a catalog just loaded from
\* a document of the program saves to that very document.
C9_RoundTrip ==
    /\ running =>
         LET back == load_database(Document(json_dump(lists, current_list)))
         IN  ~back.raised /\ back.lists = lists /\ back.current_list = current_list
    /\ (running /\ outcome.op = "load" /\ db_file.kind = "json") =>
         db_file = Document(json_dump(lists, current_list))

\* C9 witness: the process was started on a document that holds "scifi" before
\* "default" and a list of two books
C9_Witness ==
    /\ running
    /\ outcome.op = "load"
    /\ lists.keys = <<"scifi", "default">>
    /\ \E n \in Keys(lists) : Len(Entries(n).keys) >= 2

\* C10 (as claimed): a load that finds the document absent, unparseable or not
\* of the expected shape does not fail: the process runs with the single empty
\* list "default" as its catalog and "default" active.
C10_LoadNeverFails ==
    (outcome.op = "load" /\ db_file.kind # "json") =>
        running /\ lists = DefaultLists /\ current_list = "default"

\* the books of the active list, as delete_book lists them
Books == DictGet(lists, current_list, EmptyDict)

MutatingOps == {"add_book", "delete_book", "add_list", "delete_list", "switch_lists"}

\* C12: when a mutating operation has returned without a failure, the document
\* is the dump of the catalog in memory, lists and current_list, and loading
\* it gives back that catalog: nothing is left for a later save.
C12_SavedAfterEveryOperation ==
    (running /\ outcome.op \in MutatingOps /\ outcome.status = "ok") =>
        /\ db_file = Document(json_dump(lists, current_list))
        /\ load_database(db_file).lists = lists
        /\ load_database(db_file).current_list = current_list

\* C12 witness: a book is in "default", something has gone wrong once, and the
\* switch to "scifi" that was just made has saved the catalog with the book
C12_Witness ==
    /\ running /\ disturbed
    /\ outcome.op = "switch_lists" /\ outcome.status = "ok"
    /\ current_list = "scifi"
    /\ Len(Entries("default").keys) = 1
    /\ now = 1
    /\ Len(load_database(db_file).lists.val["default"].keys) = 1

\* format_size has returned
Formatted == label # NoLabel

\* the unit the claims describe: the first of B, KB, MB, GB in which the count
\* is below 1024 (one digit before the point), or TB
UnitIndex == IF Len(byte_count) - 1 < 4 THEN Len(byte_count) - 1 ELSE 4

\* the count in its unit, cut after the first decimal, in tenths
FloorTenths ==
    LET n == Len(byte_count)
    IN  10 * Whole(SubSeq(byte_count, 1, n - UnitIndex))
          + Times10(SubSeq(byte_count, n - UnitIndex + 1, n)).carry

\* the tenths format_size printed
PrintedTenths == 10 * label.whole + label.frac

\* C13: format_size gives "0 B" for 0; for every other count the unit is the
\* first of B, KB, MB, GB in which the count is below 1024, or TB, and the
\* value is printed with one decimal, at most half a tenth away from the count
\* (written out in integers for the counts below 2^20); 1024 gives "1.0 KB",
\* 1536 "1.5 KB" and 1073741824 "1.0 GB".
C13_FormatSize ==
    Formatted =>
      /\ byte_count = <<0>> => label = [whole |-> 0, frac |-> -1, unit |-> "B"]
      /\ byte_count # <<0>> =>
           /\ label.unit = size_names[UnitIndex + 1]
           /\ label.frac \in 0..9 /\ label.whole >= 0
           /\ PrintedTenths \in {FloorTenths, FloorTenths + 1}
           /\ Len(byte_count) <= 2 =>
                LET d == IF Len(byte_count) = 1 THEN 1 ELSE 1024
                    e == 10 * Whole(byte_count) - PrintedTenths * d
                IN  2 * e <= d /\ 2 * e >= -d
      /\ byte_count = <<1, 0>> => label = [whole |-> 1, frac |-> 0, unit |-> "KB"]
      /\ byte_count = <<1, 512>> => label = [whole |-> 1, frac |-> 5, unit |-> "KB"]
      /\ byte_count = <<1, 0, 0, 0>> => label = [whole |-> 1, frac |-> 0, unit |-> "GB"]

\* C13 witness: format_size was given 1073741824 and returned "1.0 GB"
C13_Witness ==
    /\ byte_count = <<1, 0, 0, 0>>
    /\ label = [whole |-> 1, frac |-> 0, unit |-> "GB"]

\* no directory dirs holds a link that the index has no entry for, the index
\* being the database ls of a running process and the document doc of a
\* stopped one
NoOrphanLink(run, ls, doc, dirs) ==
    LET index == IF run THEN ls ELSE load_database(doc).lists
    IN  \A n \in ListNames :
            LinkNames(dirs[n]) \subseteq (IF n \in Keys(index) THEN Keys(index.val[n]) ELSE {})

\* C14 (as claimed): a step of delete_book, ended or cut short by a failing
\* save, taken where every link has its entry, leaves every link with its
\* entry: at worst an entry has lost its link.
C14_LinkGoesFirst ==
    [][ (outcome'.op = "delete_book" /\ NoOrphanLink(running, lists, db_file, books_dir))
            => NoOrphanLink(running', lists', db_file', books_dir') ]_vars

\* C15 (as claimed): add_book given no path, a missing path or a directory
\* returns having changed nothing, and a step of add_book in which the link
\* or copy could not be made leaves the lists, the document and every
\* directory as they were.
C15_FailedAddChangesNothing ==
    [][ /\ running => \A p \in PathInputs :
              Rejected(add_book(p, now, IoOk)) => NothingChanged(add_book(p, now, IoOk))
        /\ (outcome'.op = "add_book" /\ outcome'.status = "LinkCreationFailed") =>
              /\ lists' = lists /\ current_list' = current_list
              /\ db_file' = db_file
              /\ books_dir' = books_dir ]_vars

\* C15 (amended): add_book given no path, a missing path or a directory
\* returns having changed nothing. A step of add_book in which the link or
\* copy could not be made adds no entry and saves nothing: lists, current_list
\* and the document are as they were. The directories are as they were where
\* links are symbolic links; where they are copies, the directory of the
\* active list may have gained the one file the failed copy left, and nothing
\* else has changed.
C15_FailedAddKeepsCatalog ==
    [][ /\ running => \A p \in PathInputs :
              Rejected(add_book(p, now, IoOk)) => NothingChanged(add_book(p, now, IoOk))
        /\ (outcome'.op = "add_book" /\ outcome'.status = "LinkCreationFailed") =>
              /\ lists' = lists /\ current_list' = current_list
              /\ db_file' = db_file
              /\ os_name # "nt" => books_dir' = books_dir
              /\ \A n \in ListNames \ {current_list} : books_dir'[n] = books_dir[n]
              /\ books_dir[current_list].links \subseteq books_dir'[current_list].links
              /\ Cardinality(books_dir'[current_list].links \ books_dir[current_list].links) <= 1
      ]_vars

\* C15 witness: a copy into a list that holds a book has failed and left a
\* file that has no entry
C15_Witness ==
    /\ running /\ os_name = "nt"
    /\ outcome.op = "add_book" /\ outcome.status = "LinkCreationFailed"
    /\ Len(Entries(current_list).keys) >= 1
    /\ Cardinality(LinkNames(books_dir[current_list]) \ Keys(Entries(current_list))) = 1

\* C16 (as claimed): a step of add_book that links the file and saves puts one
\* more entry into the active list, under a key the list did not have, and
\* leaves every entry the list had as it was.
C16_AddNeverReplaces ==
    [][ (outcome'.op = "add_book" /\ outcome'.status = "ok") =>
          LET old == lists.val[current_list]
              new == lists'.val[current_list]
          IN  /\ Len(new.keys) = Len(old.keys) + 1
              /\ \A k \in Keys(old) : k \in Keys(new) /\ new.val[k] = old.val[k] ]_vars

\* C17: add_list given nothing, blanks or the name of a list of the catalog
\* returns having changed nothing: no directory made, lists, current_list and
\* document as they were. Given a new name it leaves the directory of that
\* name in place, the new empty list last in the catalog, the other lists and
\* current_list as they were, and the document saved; and when the save fails
\* the directory is already there.
C17_AddList ==
    running =>
      \A raw \in NameInputs :
        LET r == add_list(raw, IoOk)
        IN  IF raw \in {"", " "} \/ raw \in Keys(lists)
            THEN NothingChanged(r)
            ELSE /\ r.status = "ok" /\ r.running
                 /\ r.books_dir[raw].exists
                 /\ \A n \in ListNames \ {raw} : r.books_dir[n] = books_dir[n]
                 /\ r.lists = DictSet(lists, raw, EmptyDict)
                 /\ r.lists.keys = Append(lists.keys, raw)
                 /\ r.current_list = current_list
                 /\ r.db_file = Document(json_dump(r.lists, r.current_list))
                 /\ \A io \in SaveFaults :
                      /\ add_list(raw, io).status = "StorageError"
                      /\ add_list(raw, io).books_dir[raw].exists
                      /\ add_list(raw, io).db_file # r.db_file

\* C17 witness: "default" was deleted and has just been added again, so that
\* "scifi" is taken, "default" is taken and blanks are no name
C17_Witness ==
    /\ running
    /\ outcome.op = "add_list" /\ outcome.status = "ok" /\ outcome.name = "default"
    /\ lists.keys = <<"scifi", "default">>
    /\ add_list(" ", IoOk).status = "empty_name"
    /\ add_list("scifi", IoOk).status = "already_exists"

\* the keys the document doc holds for the list n
PersistedKeys(doc, n) ==
    LET index == load_database(doc).lists
    IN  IF n \in Keys(index) THEN Keys(index.val[n]) ELSE {}

\* the last step was an operation that saved the catalog
Saved == outcome.op \in MutatingOps /\ outcome.status = "ok"

\* C18 (as claimed): once a save has gone through after the add_book whose save
\* failed, the link of that add_book, if it is still in its directory, has its
\* entry in the document.
C18_NextSaveReconciles ==
    (unsaved # NoLink /\ Saved /\ unsaved.name \in LinkNames(books_dir[unsaved.list])) =>
        unsaved.name \in PersistedKeys(db_file, unsaved.list)

\* C18 (amended): the add_book whose save failed returns with the process
\* running, the link in the directory, its entry in memory and no entry for
\* it in the document; and an operation that saves while the entry is still
\* in memory leaves the entry in the document, unless it removed the link.
C18_SavedWhileInMemory ==
    [][ /\ (outcome'.op = "add_book" /\ outcome'.status = "StorageError") =>
              /\ running'
              /\ unsaved'.name \in LinkNames(books_dir'[unsaved'.list])
              /\ unsaved'.name \notin LinkNames(books_dir[unsaved'.list])
              /\ unsaved'.name \in Keys(lists'.val[unsaved'.list])
              /\ unsaved'.name \notin PersistedKeys(db_file', unsaved'.list)
        /\ (/\ unsaved # NoLink /\ running
            /\ unsaved.list \in Keys(lists) /\ unsaved.name \in Keys(lists.val[unsaved.list])
            /\ outcome'.op \in MutatingOps /\ outcome'.status = "ok"
            /\ unsaved.name \in LinkNames(books_dir'[unsaved.list])) =>
              unsaved.name \in PersistedKeys(db_file', unsaved.list)
      ]_vars

\* C18 witness: the link whose save failed is in its directory, and the
\* operation that followed has put its entry into the document
C18_Witness ==
    /\ unsaved # NoLink /\ running /\ Saved
    /\ unsaved.name \in LinkNames(books_dir[unsaved.list])
    /\ unsaved.name \in PersistedKeys(db_file, unsaved.list)
    /\ outcome.op = "switch_lists"

\* the original file of the c-th book of the active list is where it was
OriginalThere(c) == Books.val[Books.keys[c.val]].location \in files

\* C19 (as claimed): open_book of an entry opens the original file when it is
\* still there; otherwise the entry's link when that is still in the
\* directory of the list; otherwise nothing, with "Book file not found".
C19_OriginalElseLink ==
    running =>
      \A c \in ChoiceInputs(Len(Books.keys)) :
        (c.isnum /\ valid_choice(c, Len(Books.keys))) =>
          LET r == open_book(c)
              k == Books.keys[c.val]
          IN  IF OriginalThere(c)
              THEN r.file_to_open = OriginalTarget(Books.val[k].location)
              ELSE IF k \in LinkNames(books_dir[current_list])
              THEN r.file_to_open = LinkTarget(current_list, k)
              ELSE r.status = "book_not_found" /\ r.file_to_open = NoTarget

\* C19 (amended): open_book of an entry opens the original file when it is
\* still there; otherwise the entry's link when the link is a copy that is
\* still in the directory, or a symbolic link whose target is still there;
\* otherwise nothing, with "Book file not found". A symbolic link points at
\* the original, so where links are symbolic a missing original always ends
\* in "Book file not found", the link in its directory or not. A choice that
\* names no entry opens nothing.
C19_OriginalElseLiveLink ==
    running =>
      \A c \in ChoiceInputs(Len(Books.keys)) :
        LET r == open_book(c)
        IN  IF c.isnum /\ valid_choice(c, Len(Books.keys))
            THEN LET k == Books.keys[c.val]
                     live == \E l \in books_dir[current_list].links :
                                l.name = k /\ (os_name = "nt" \/ l.target \in files)
                 IN  /\ OriginalThere(c) =>
                          r.status = "ok" /\ r.file_to_open = OriginalTarget(Books.val[k].location)
                     /\ (~OriginalThere(c) /\ live) =>
                          r.status = "ok" /\ r.file_to_open = LinkTarget(current_list, k)
                     /\ (~OriginalThere(c) /\ ~live) =>
                          r.status = "book_not_found" /\ r.file_to_open = NoTarget
                     /\ (~OriginalThere(c) /\ os_name = "posix") => r.status = "book_not_found"
            ELSE r.file_to_open = NoTarget /\ r.status # "ok"

\* C19 witness: of two books of a list of copies the original is gone; the
\* first is opened from its copy
C19_Witness ==
    /\ running /\ os_name = "nt"
    /\ Len(Books.keys) = 2
    /\ ~OriginalThere(Pick(1))
    /\ open_book(Pick(1)).file_to_open = LinkTarget(current_list, Books.keys[1])
    /\ outcome.op = "open_book" /\ outcome.status = "ok"

\* what is left of the count behind the first decimal, against half a tenth
LeftOver ==
    LET n == Len(byte_count)
    IN  AgainstHalf(Times10(SubSeq(byte_count, n - UnitIndex + 1, n)).digits)

\* C20 (as claimed): format_size cuts the value off after the first decimal,
\* so what it prints is never above the count, and is below 1024 in every
\* unit under TB.
C20_Truncates ==
    (Formatted /\ byte_count # <<0>>) =>
        /\ PrintedTenths = FloorTenths
        /\ UnitIndex < 4 => label.whole < 1024

\* C20 (amended): format_size prints the tenth nearest to the count: the cut
\* value when less than half a tenth is left behind it, the next tenth up
\* when more is left, and of the two the even one when exactly half is left
\* (for the counts below 2^20: at most half a tenth away, in integers). In a
\* unit under TB it prints at most "1024.0".
C20_RoundsToNearest ==
    (Formatted /\ byte_count # <<0>>) =>
        /\ LeftOver = "below" => PrintedTenths = FloorTenths
        /\ LeftOver = "above" => PrintedTenths = FloorTenths + 1
        /\ LeftOver = "half" =>
             PrintedTenths \in {FloorTenths, FloorTenths + 1} /\ PrintedTenths % 2 = 0
        /\ Len(byte_count) <= 2 =>
             LET d == IF Len(byte_count) = 1 THEN 1 ELSE 1024
                 e == 10 * Whole(byte_count) - PrintedTenths * d
             IN  2 * e <= d /\ 2 * e >= -d
        /\ UnitIndex < 4 => PrintedTenths <= 10240

\* C20 witness: format_size was given 1048575, one byte short of 1 MB, and
\* returned "1024.0 KB"
C20_Witness ==
    /\ byte_count = <<1023, 1023>>
    /\ label = [whole |-> 1024, frac |-> 0, unit |-> "KB"]

====
